---- MODULE Spec2Model ----
(***************************************************************************)
(* Food waste management dashboard: the ingestion of four CSV files into   *)
(* a SQLite store (build_db.py, setup_database), the cached query layer    *)
(* (run_query, get_db_connection) and the three report pages (app.py).     *)
(*                                                                         *)
(* Text values are sequences of one-character strings, so that the         *)
(* interpolation of the selected city into a SQL string literal and the    *)
(* SQL lexer's reading of that literal are two different operations.       *)
(* Percentages and averages are integers counting hundredths.              *)
(***************************************************************************)
EXTENDS Integers, Sequences, FiniteSets, TLC

\* ------------------------------------------------------------------ bounds
\* Rows in the Claims table of the status-distribution specification.
MaxClaims == 6
\* Operations (calls, script runs, changes of the files) in one behaviour.
MaxSteps == 5

\* ------------------------------------------------------------ small helpers
Range(s) == {s[i] : i \in 1..Len(s)}

Take(s, k) == IF Len(s) <= k THEN s ELSE SubSeq(s, 1, k)

RECURSIVE Dedup(_)
\* The distinct elements of s, each at its first place.
Dedup(s) ==
  IF s = <<>> THEN <<>>
  ELSE LET r == Dedup(SubSeq(s, 1, Len(s) - 1))
           x == s[Len(s)]
       IN IF x \in Range(r) THEN r ELSE Append(r, x)

RECURSIVE SumSeq(_)
SumSeq(s) == IF s = <<>> THEN 0 ELSE s[1] + SumSeq(Tail(s))

RECURSIVE Flatten(_)
Flatten(ss) == IF ss = <<>> THEN <<>> ELSE ss[1] \o Flatten(Tail(ss))

RECURSIVE InsertDesc(_, _, _)
\* r put into s, which is sorted by falling field k, behind the rows that
\* have the same k (a stable sort).
InsertDesc(s, r, k) ==
  IF s = <<>> THEN <<r>>
  ELSE IF s[1][k] >= r[k] THEN <<s[1]>> \o InsertDesc(Tail(s), r, k)
       ELSE <<r>> \o s

RECURSIVE SortDesc(_, _)
SortDesc(s, k) ==
  IF s = <<>> THEN <<>>
  ELSE InsertDesc(SortDesc(SubSeq(s, 1, Len(s) - 1), k), s[Len(s)], k)

\* a / b rounded to the nearest integer, halves up (a >= 0, b > 0).
RoundDiv(a, b) == (2 * a + b) \div (2 * b)

\* ------------------------------------------------------- files and the store
DB_FILE == "food_wastage.db"

\* required_csvs, in the order the existence check walks it.
required_csvs ==
  <<"providers_data.csv", "receivers_data.csv",
    "food_listings_data.csv", "claims_data.csv">>

Files == Range(required_csvs)

\* The table each file is written to (the first argument of its to_sql).
TableOf(f) ==
  CASE f = "providers_data.csv" -> "Providers"
    [] f = "receivers_data.csv" -> "Receivers"
    [] f = "food_listings_data.csv" -> "Food_Listings"
    [] f = "claims_data.csv" -> "Claims"

Tables == {TableOf(f) : f \in Files}

\* A file on disk: absent, present but unreadable by pd.read_csv (or, for the two
\* files with a date column, lacking that column), or present with rows.
CsvAbsent == [kind |-> "absent", rows |-> <<>>]
CsvMalformed == [kind |-> "malformed", rows |-> <<>>]
CsvOk(rows) == [kind |-> "ok", rows |-> rows]

\* A table of the store: missing, or holding rows.
NoTable == [exists |-> FALSE, rows |-> <<>>]
\* The store: whether DB_FILE exists, and its tables.
NoStore == [file |-> FALSE, tables |-> [t \in Tables |-> NoTable]]
EmptyStore == [file |-> TRUE, tables |-> [t \in Tables |-> NoTable]]

\* Dates pd.to_datetime can parse; anything else becomes NaT (NULL in the store).
ParsableDates == {"2025-03-17", "2025-03-18 10:00"}
NaT == "NaT"
to_datetime(s) == IF s \in ParsableDates THEN s ELSE NaT

\* The frame with the rows dropped whose date did not parse (a dropna after the
\* coercion).
DataFrameDroppingNaT(f, rows) ==
  CASE f = "food_listings_data.csv" ->
         SelectSeq(rows, LAMBDA r : to_datetime(r.Expiry_Date) # NaT)
    [] f = "claims_data.csv" ->
         SelectSeq(rows, LAMBDA r : to_datetime(r.Timestamp) # NaT)
    [] OTHER -> rows

\* The data frame of a file as it is handed to to_sql: the rows pd.read_csv
\* returns, with Expiry_Date (food listings) or Timestamp (claims) coerced.
DataFrameOf(f, rows) ==
  CASE f = "food_listings_data.csv" ->
         [i \in 1..Len(rows) |->
            [rows[i] EXCEPT !.Expiry_Date = to_datetime(rows[i].Expiry_Date)]]
    [] f = "claims_data.csv" ->
         [i \in 1..Len(rows) |->
            [rows[i] EXCEPT !.Timestamp = to_datetime(rows[i].Timestamp)]]
    [] OTHER -> rows

\* to_sql with if_exists='append': the rows are added to the table's own.
to_sql_append(tables, t, frame) ==
  [tables EXCEPT ![t] = [exists |-> TRUE, rows |-> tables[t].rows \o frame]]

\* df.to_sql(t, conn, if_exists='replace', index=False): the table is dropped and
\* created again from the frame. pandas commits each to_sql on a sqlite3 connection.
to_sql(tables, t, frame) ==
  [tables EXCEPT ![t] = [exists |-> TRUE, rows |-> frame]]

\* The first required file that does not exist, or "" when all exist.
RECURSIVE FirstMissingFrom(_, _)
FirstMissingFrom(csv, i) ==
  IF i > Len(required_csvs) THEN ""
  ELSE IF csv[required_csvs[i]].kind = "absent" THEN required_csvs[i]
       ELSE FirstMissingFrom(csv, i + 1)

\* The check of the first required file only.
FirstMissingFirstOnly(csv) ==
  IF csv[required_csvs[1]].kind = "absent" THEN required_csvs[1] ELSE ""

FirstMissing(csv) == FirstMissingFrom(csv, 1)

AllWellFormed(csv) == \A f \in Files : csv[f].kind = "ok"

\* build_db.py's try block from file i on: each file is read and written in turn,
\* and the first file that cannot be read ends the block, the tables written
\* before it staying as written.
RECURSIVE LoadInTurn(_, _, _)
LoadInTurn(csv, tables, i) ==
  IF i > Len(required_csvs) THEN [tables |-> tables, ok |-> TRUE]
  ELSE LET f == required_csvs[i]
       IN IF csv[f].kind # "ok" THEN [tables |-> tables, ok |-> FALSE]
          ELSE LoadInTurn(csv, to_sql(tables, TableOf(f), DataFrameOf(f, csv[f].rows)),
                          i + 1)

\* setup_database's writes: the four frames, all read before, written in turn.
RECURSIVE WriteAll(_, _, _)
WriteAll(csv, tables, i) ==
  IF i > Len(required_csvs) THEN tables
  ELSE LET f == required_csvs[i]
       IN WriteAll(csv, to_sql(tables, TableOf(f), DataFrameOf(f, csv[f].rows)), i + 1)

\* An st.error message (a print of build_db.py): its kind, and the file it names.
Msg(kind) == [kind |-> kind, file |-> ""]

\* The build_db.py script, run once. openable: whether sqlite3.connect succeeds.
\* out: "missing" (a file is absent: exit() before the store is opened),
\* "crash" (sqlite3.connect raises outside the try block), "error" (the except
\* branch) or "ok". opened and closed count the connections.
build_db(csv, db, openable) ==
  LET missing == FirstMissing(csv)
  IN IF missing # ""
     THEN [db |-> db, out |-> "missing", file |-> missing, opened |-> 0, closed |-> 0]
     ELSE IF ~openable
     THEN [db |-> db, out |-> "crash", file |-> "", opened |-> 0, closed |-> 0]
     ELSE LET r == LoadInTurn(csv, db.tables, 1)
          IN [db |-> [file |-> TRUE, tables |-> r.tables],
              out |-> IF r.ok THEN "ok" ELSE "error",
              file |-> "", opened |-> 1, closed |-> 1]

\* The body of setup_database. value is what it returns: "None" (a file is absent),
\* "False" (the except branch) or "True". msgs are its st.error calls.
\* The except branch does not close the connection line 21 opened.
setup_database_body(csv, db, openable) ==
  LET missing == FirstMissing(csv)
  IN IF missing # ""
     THEN [db |-> db, value |-> "None", msgs |-> <<[kind |-> "csv_not_found", file |-> missing]>>,
           file |-> missing, opened |-> 0, closed |-> 0]
     ELSE IF ~openable
     THEN [db |-> db, value |-> "False", msgs |-> <<Msg("setup_error")>>,
           file |-> "", opened |-> 0, closed |-> 0]
     ELSE IF ~AllWellFormed(csv)
     THEN [db |-> [db EXCEPT !.file = TRUE], value |-> "False",
           msgs |-> <<Msg("setup_error")>>, file |-> "", opened |-> 1, closed |-> 0]
     ELSE [db |-> [file |-> TRUE, tables |-> WriteAll(csv, db.tables, 1)],
           value |-> "True", msgs |-> <<>>, file |-> "", opened |-> 1, closed |-> 1]

\* ------------------------------------------------------------------ queries
\* The sentinel of the city selector. Cities of the data are sequences of
\* one-character strings, so no city of the data equals it.
AllCities == <<"All Cities">>

QUOTE == "'"

\* f"'{selected_city}'": the selected city between two single quotes, as every
\* filter clause of the pages interpolates it.
Interpolate(city) == <<QUOTE>> \o city \o <<QUOTE>>

\* The text of a report's query: the report's fixed SQL (rep) and the interpolated
\* literal of its city clause, empty when the clause is left out.
QueryText(rep, selected_city) ==
  [rep |-> rep,
   clause |-> IF selected_city # AllCities THEN Interpolate(selected_city) ELSE <<>>]

\* The SQL lexer on a string literal, from position i of s on (s[1] is the opening
\* quote): two quotes in a row stand for one quote character, a single quote closes
\* the literal. ok only if the literal closes at the last character: with the
\* letters and quotes of the data, whatever follows a closed literal is a syntax
\* error (an identifier after an expression, or an unterminated literal).
RECURSIVE ReadLiteral(_, _, _)
ReadLiteral(s, i, acc) ==
  IF i > Len(s) THEN [ok |-> FALSE, val |-> <<>>]
  ELSE IF s[i] = QUOTE
       THEN IF i + 1 <= Len(s) /\ s[i + 1] = QUOTE
            THEN ReadLiteral(s, i + 2, Append(acc, QUOTE))
            ELSE [ok |-> (i = Len(s)), val |-> IF i = Len(s) THEN acc ELSE <<>>]
       ELSE ReadLiteral(s, i + 1, Append(acc, s[i]))

\* A query's city clause as SQLite reads it: no clause, a clause comparing with a
\* literal, or a syntax error.
ParseClause(clause) ==
  IF clause = <<>> THEN [ok |-> TRUE, on |-> FALSE, val |-> <<>>]
  ELSE LET l == ReadLiteral(clause, 2, <<>>)
       IN [ok |-> l.ok, on |-> TRUE, val |-> l.val]

NoFilter == [ok |-> TRUE, on |-> FALSE, val |-> <<>>]

\* column = 'literal' under SQLite's default BINARY collation: the same
\* characters, case included.
SqlEq(a, b) == a = b

\* The rows a city clause keeps.
Where(rows, col, filt) ==
  IF filt.on THEN SelectSeq(rows, LAMBDA r : SqlEq(r[col], filt.val)) ELSE rows

\* GROUP BY key: the distinct keys, and the rows of one key. SQL leaves the order
\* of the groups (and of rows that tie in an ORDER BY) open; here it is that of
\* first appearance.
Keys(rows, key) == Dedup([i \in 1..Len(rows) |-> rows[i][key]])

Group(rows, key, k) == SelectSeq(rows, LAMBDA r : r[key] = k)

\* A JOIN B before its ON: every pair of a row of A (a) and a row of B (b).
Cross(A, B) ==
  Flatten([i \in 1..Len(A) |-> [j \in 1..Len(B) |-> [a |-> A[i], b |-> B[j]]]])

\* The tables each report reads.
TablesOf(rep) ==
  CASE rep \in {"q10"} -> {"Claims"}
    [] rep \in {"q6"} -> {"Food_Listings"}
    [] rep \in {"q12"} -> {"Claims", "Food_Listings"}
    [] rep \in {"q1p", "q2", "q3"} -> {"Providers"}
    [] rep \in {"q13"} -> {"Providers", "Food_Listings"}
    [] rep \in {"q1r"} -> {"Receivers"}
    [] rep \in {"q4"} -> {"Claims", "Receivers"}
    [] rep \in {"q11"} -> {"Claims", "Receivers", "Food_Listings"}
    [] rep \in {"cities"} -> {"Providers", "Food_Listings"}
    [] OTHER -> {}

\* COUNT(*) * 100 / total in whole numbers (the query without its ".0"), as
\* hundredths of a percent.
PercentageInt(n, total) == 100 * ((n * 100) \div total)

\* ROUND((COUNT(*) * 100.0) / (SELECT COUNT(*) FROM Claims), 2), in hundredths.
Percentage(n, total) == RoundDiv(n * 10000, total)

\* ROUND(AVG(fl.Quantity), 2), in hundredths.
RoundAvg(qs) == RoundDiv(100 * SumSeq(qs), Len(qs))

\* q10, lines 75-80: the share of each Status among the claims.
Q10(T) ==
  LET C == T["Claims"].rows
      keys == Keys(C, "Status")
  IN [i \in 1..Len(keys) |->
        [Status |-> keys[i],
         Percentage |-> Percentage(Len(Group(C, "Status", keys[i])), Len(C))]]

\* q6, lines 89-95: the Location with the most listings.
Q6(T) ==
  LET F == T["Food_Listings"].rows
      keys == Keys(F, "Location")
  IN Take(SortDesc([i \in 1..Len(keys) |->
                      [City |-> keys[i],
                       Listing_Count |-> Len(Group(F, "Location", keys[i]))]],
                   "Listing_Count"), 1)

\* q12, lines 104-112: the meal type with the most claims.
Q12(T, filt) ==
  LET J == SelectSeq(Cross(T["Claims"].rows, T["Food_Listings"].rows),
             LAMBDA p : p.a.Food_ID = p.b.Food_ID
                        /\ (filt.on => SqlEq(p.b.Location, filt.val)))
      R == [i \in 1..Len(J) |->
              [Claim_ID |-> J[i].a.Claim_ID, Meal_Type |-> J[i].b.Meal_Type]]
      keys == Keys(R, "Meal_Type")
  IN Take(SortDesc([i \in 1..Len(keys) |->
                      [Meal_Type |-> keys[i],
                       Claim_Count |-> Len(Group(R, "Meal_Type", keys[i]))]],
                   "Claim_Count"), 1)

\* q1 of the providers page, lines 126-134.
Q1p(T, filt) ==
  LET P == Where(T["Providers"].rows, "City", filt)
      keys == Keys(P, "City")
  IN SortDesc([i \in 1..Len(keys) |->
                 [City |-> keys[i],
                  Providers_Count |->
                    Cardinality({r.Provider_ID : r \in Range(Group(P, "City", keys[i]))})]],
              "Providers_Count")

\* q2, lines 143-149.
Q2(T, filt) ==
  LET P == Where(T["Providers"].rows, "City", filt)
      keys == Keys(P, "Type")
  IN SortDesc([i \in 1..Len(keys) |->
                 [Provider_Type |-> keys[i],
                  Total |-> Len(Group(P, "Type", keys[i]))]],
              "Total")

\* q3, line 158.
Q3(T, filt) ==
  LET P == Where(T["Providers"].rows, "City", filt)
  IN [i \in 1..Len(P) |-> [Name |-> P[i].Name, Contact |-> P[i].Contact]]

\* The Quantity column of rows.
Quantities(rows) == [i \in 1..Len(rows) |-> rows[i].Quantity]

\* q13, lines 168-176.
Q13(T, filt) ==
  LET J == SelectSeq(Cross(T["Providers"].rows, T["Food_Listings"].rows),
             LAMBDA p : p.a.Provider_ID = p.b.Provider_ID
                        /\ (filt.on => SqlEq(p.a.City, filt.val)))
      R == [i \in 1..Len(J) |-> [Name |-> J[i].a.Name, Quantity |-> J[i].b.Quantity]]
      keys == Keys(R, "Name")
  IN Take(SortDesc([i \in 1..Len(keys) |->
                      [Provider_Name |-> keys[i],
                       Total_Quantity_Donated |->
                         SumSeq(Quantities(Group(R, "Name", keys[i])))]],
                   "Total_Quantity_Donated"), 10)

\* q1 of the receivers page, lines 191-199.
Q1r(T, filt) ==
  LET P == Where(T["Receivers"].rows, "City", filt)
      keys == Keys(P, "City")
  IN SortDesc([i \in 1..Len(keys) |->
                 [City |-> keys[i],
                  Receivers_Count |->
                    Cardinality({r.Receiver_ID : r \in Range(Group(P, "City", keys[i]))})]],
              "Receivers_Count")

\* q4, lines 208-216.
Q4(T, filt) ==
  LET J == SelectSeq(Cross(T["Claims"].rows, T["Receivers"].rows),
             LAMBDA p : p.a.Receiver_ID = p.b.Receiver_ID
                        /\ (filt.on => SqlEq(p.b.City, filt.val)))
      R == [i \in 1..Len(J) |-> [Claim_ID |-> J[i].a.Claim_ID, Name |-> J[i].b.Name]]
      keys == Keys(R, "Name")
  IN Take(SortDesc([i \in 1..Len(keys) |->
                      [Receiver_Name |-> keys[i],
                       Claims_Count |-> Len(Group(R, "Name", keys[i]))]],
                   "Claims_Count"), 5)

\* q11, lines 225-235.
Q11(T, filt) ==
  LET J1 == SelectSeq(Cross(T["Claims"].rows, T["Receivers"].rows),
              LAMBDA p : p.a.Receiver_ID = p.b.Receiver_ID)
      J2 == SelectSeq(Cross(J1, T["Food_Listings"].rows),
              LAMBDA p : p.a.a.Food_ID = p.b.Food_ID)
      W == SelectSeq(J2, LAMBDA p : p.a.a.Status = "Completed"
                                    /\ (filt.on => SqlEq(p.a.b.City, filt.val)))
      R == [i \in 1..Len(W) |-> [Name |-> W[i].a.b.Name, Quantity |-> W[i].b.Quantity]]
      keys == Keys(R, "Name")
  IN Take(SortDesc([i \in 1..Len(keys) |->
                      [Receiver_Name |-> keys[i],
                       Avg_Quantity_Claimed |->
                         RoundAvg(Quantities(Group(R, "Name", keys[i])))]],
                   "Avg_Quantity_Claimed"), 10)

\* all_cities_query, lines 246-250: UNION drops the duplicates.
QCities(T) ==
  LET P == T["Providers"].rows
      F == T["Food_Listings"].rows
      all == Dedup([i \in 1..Len(P) |-> P[i].City] \o [i \in 1..Len(F) |-> F[i].Location])
  IN [i \in 1..Len(all) |-> [City |-> all[i]]]

\* The columns of each report's result.
ColumnsOf(rep) ==
  CASE rep = "q10" -> <<"Status", "Percentage">>
    [] rep = "q6" -> <<"City", "Listing_Count">>
    [] rep = "q12" -> <<"Meal_Type", "Claim_Count">>
    [] rep = "q1p" -> <<"City", "Providers_Count">>
    [] rep = "q2" -> <<"Provider_Type", "Total">>
    [] rep = "q3" -> <<"Name", "Contact">>
    [] rep = "q13" -> <<"Provider_Name", "Total_Quantity_Donated">>
    [] rep = "q1r" -> <<"City", "Receivers_Count">>
    [] rep = "q4" -> <<"Receiver_Name", "Claims_Count">>
    [] rep = "q11" -> <<"Receiver_Name", "Avg_Quantity_Claimed">>
    [] rep = "cities" -> <<"City">>
    [] OTHER -> <<>>

\* The rows of a report over tables that all exist, under a parsed city clause.
ReportRows(rep, T, filt) ==
  CASE rep = "q10" -> Q10(T)
    [] rep = "q6" -> Q6(T)
    [] rep = "q12" -> Q12(T, filt)
    [] rep = "q1p" -> Q1p(T, filt)
    [] rep = "q2" -> Q2(T, filt)
    [] rep = "q3" -> Q3(T, filt)
    [] rep = "q13" -> Q13(T, filt)
    [] rep = "q1r" -> Q1r(T, filt)
    [] rep = "q4" -> Q4(T, filt)
    [] rep = "q11" -> Q11(T, filt)
    [] rep = "cities" -> QCities(T)

\* A data frame: its columns and its rows. pd.DataFrame() has neither.
EmptyDataFrame == [cols |-> <<>>, rows |-> <<>>]
\* DataFrame.empty
IsEmpty(df) == Len(df.cols) = 0 \/ Len(df.rows) = 0

\* The reports of the pages, and a text that is no SQL.
Reports == {"q10", "q6", "q12", "q1p", "q2", "q3", "q13", "q1r", "q4", "q11", "cities"}

\* pd.read_sql_query(query, conn): the frame, or an exception (ok = FALSE) when the
\* text is no SQL, the city clause does not parse, or a table is missing.
read_sql_query(q, T) ==
  LET filt == ParseClause(q.clause)
  IN IF q.rep \notin Reports \/ ~filt.ok \/ \E t \in TablesOf(q.rep) : ~T[t].exists
     THEN [ok |-> FALSE, df |-> EmptyDataFrame]
     ELSE [ok |-> TRUE,
           df |-> [cols |-> ColumnsOf(q.rep), rows |-> ReportRows(q.rep, T, filt)]]

\* ------------------------------------------------------- the cached layer
\* The process and the files it works on, as the functions below pass it on:
\*   csv, db, openable  the files on disk, and whether sqlite3.connect succeeds
\*   setupCache         st.cache_resource's entry for setup_database()
\*   queryCache         st.cache_data's entries for run_query, by query text
\*   openConns          connections opened and not closed
\*   setupRuns          executions of setup_database's body
NotCached == [cached |-> FALSE, value |-> "", msgs |-> <<>>]

\* The process after an execution b of setup_database's body, and what the call
\* returns. keep: whether st.cache_resource keeps the result.
AfterSetupBody(w, b, keep) ==
  [w |-> [w EXCEPT !.db = b.db,
                   !.openConns = @ + b.opened - b.closed,
                   !.setupRuns = @ + 1,
                   !.setupCache = IF keep
                                  THEN [cached |-> TRUE, value |-> b.value,
                                        msgs |-> b.msgs]
                                  ELSE @],
   value |-> b.value, msgs |-> b.msgs, ev |-> <<"setup_body">>]

\* setup_database with its decorator left out: the body runs on every call.
setup_database_uncached(w) ==
  AfterSetupBody(w, setup_database_body(w.csv, w.db, w.openable), FALSE)

\* @st.cache_resource setup_database(): the body runs on the first call; its return
\* value and the elements it drew (its st.error messages, drawn again on a hit)
\* are kept for the process's lifetime.
setup_database(w) ==
  IF w.setupCache.cached
  THEN [w |-> w, value |-> w.setupCache.value, msgs |-> w.setupCache.msgs,
        ev |-> <<"setup_hit">>]
  ELSE AfterSetupBody(w, setup_database_body(w.csv, w.db, w.openable), TRUE)

\* get_db_connection() from line 46 on, absent: whether DB_FILE was missing at
\* line 45, s: the setup_database() call made if it was.
Connect(absent, s) ==
  IF absent /\ s.value # "True"
  THEN [w |-> s.w, conn |-> FALSE, msgs |-> s.msgs, ev |-> <<"exists">> \o s.ev,
        setup |-> s.value]
  ELSE IF ~s.w.openable
  THEN [w |-> s.w, conn |-> FALSE, msgs |-> s.msgs \o <<Msg("connect_error")>>,
        ev |-> <<"exists">> \o s.ev \o <<"connect_failed">>, setup |-> s.value]
  ELSE [w |-> [s.w EXCEPT !.db.file = TRUE, !.openConns = @ + 1],
        conn |-> TRUE, msgs |-> s.msgs, ev |-> <<"exists">> \o s.ev \o <<"connect">>,
        setup |-> s.value]

\* get_db_connection(): conn is FALSE for None. sqlite3.connect creates DB_FILE
\* when it does not exist. setup is what setup_database() returned, "" when it
\* was not called.
get_db_connection(w) ==
  Connect(~w.db.file,
          IF ~w.db.file THEN setup_database(w)
          ELSE [w |-> w, value |-> "", msgs |-> <<>>, ev |-> <<>>])

\* Lines 60-66 on connection c: r is what pd.read_sql_query did.
Executed(c, r) ==
  IF r.ok
  THEN [w |-> [c.w EXCEPT !.openConns = @ - 1], df |-> r.df, msgs |-> c.msgs,
        ev |-> c.ev \o <<"query", "close">>, raised |-> FALSE, setup |-> c.setup]
  ELSE [w |-> [c.w EXCEPT !.openConns = @ - 1], df |-> EmptyDataFrame,
        msgs |-> c.msgs \o <<Msg("query_error")>>,
        ev |-> c.ev \o <<"query_failed", "close">>, raised |-> FALSE,
        setup |-> c.setup]

\* Lines 60-62 without the try around them: the exception of read_sql_query
\* leaves run_query, the connection still open.
ExecutedNoTry(c, r) ==
  IF r.ok
  THEN [w |-> [c.w EXCEPT !.openConns = @ - 1], df |-> r.df, msgs |-> c.msgs,
        ev |-> c.ev \o <<"query", "close">>, raised |-> FALSE, setup |-> c.setup]
  ELSE [w |-> c.w, df |-> EmptyDataFrame, msgs |-> c.msgs,
        ev |-> c.ev \o <<"query_failed">>, raised |-> TRUE, setup |-> c.setup]

\* Lines 58-67: c is what get_db_connection() returned.
WithConnection(c, q) ==
  IF c.conn THEN Executed(c, read_sql_query(q, c.w.db.tables))
  ELSE [w |-> c.w, df |-> EmptyDataFrame, msgs |-> c.msgs, ev |-> c.ev,
        raised |-> FALSE, setup |-> c.setup]

WithConnectionNoTry(c, q) ==
  IF c.conn THEN ExecutedNoTry(c, read_sql_query(q, c.w.db.tables))
  ELSE [w |-> c.w, df |-> EmptyDataFrame, msgs |-> c.msgs, ev |-> c.ev,
        raised |-> FALSE, setup |-> c.setup]

\* run_query's body without its try.
run_query_body_no_try(w, q) == WithConnectionNoTry(get_db_connection(w), q)

\* The body of run_query, lines 57-67.
run_query_body(w, q) == WithConnection(get_db_connection(w), q)

\* What st.cache_data does with the outcome b of the body: a frame returned is
\* kept under the query text, with the messages drawn; an exception keeps nothing.
Kept(q, b) ==
  IF b.raised THEN b
  ELSE [b EXCEPT !.w.queryCache =
          [x \in DOMAIN b.w.queryCache \cup {q} |->
             IF x = q THEN [df |-> b.df, msgs |-> b.msgs] ELSE b.w.queryCache[x]]]

\* run_query with its decorator left out.
run_query_uncached(w, q) == run_query_body(w, q)

\* @st.cache_data run_query(query): a call with a text seen before returns the
\* frame kept for it and draws its messages again; the body does not run.
run_query(w, q) ==
  IF q \in DOMAIN w.queryCache
  THEN [w |-> w, df |-> w.queryCache[q].df, msgs |-> w.queryCache[q].msgs,
        ev |-> <<"cache_hit">>, raised |-> FALSE, setup |-> ""]
  ELSE Kept(q, run_query_body(w, q))

\* ------------------------------------------------------------------- pages
\* The run_query calls of a page, one after the other. Each call is recorded with
\* its text, what it returned and drew, its steps (ev), and whether DB_FILE was
\* absent when it started.
RECURSIVE RunAll(_, _)
\* The record of the call of text q made in w, which did r, before the calls rest.
Recorded(w, q, r, rest) ==
  [w |-> rest.w,
   calls |-> <<[q |-> q, df |-> r.df, msgs |-> r.msgs, ev |-> r.ev,
                raised |-> r.raised, setup |-> r.setup,
                absent |-> ~w.db.file]>> \o rest.calls]

Then(w, qs, r) == Recorded(w, qs[1], r, RunAll(r.w, Tail(qs)))

RunAll(w, qs) ==
  IF qs = <<>> THEN [w |-> w, calls |-> <<>>]
  ELSE Then(w, qs, run_query(w, qs[1]))

\* What a page draws for a report: the frame (st.dataframe) or the no-data note
\* (st.info), as "if not q.empty" decides.
Shown(call) ==
  [rep |-> call.q.rep, what |-> IF ~IsEmpty(call.df) THEN "dataframe" ELSE "info"]

\* show_dashboard_page: q10 and q6 never take the city, q12 does.
DashboardQueries(selected_city) ==
  <<QueryText("q10", AllCities), QueryText("q6", AllCities),
    QueryText("q12", selected_city)>>

\* show_providers_page: q3 is run only for a city.
ProvidersQueries(selected_city) ==
  <<QueryText("q1p", selected_city), QueryText("q2", selected_city)>>
  \o (IF selected_city # AllCities THEN <<QueryText("q3", selected_city)>> ELSE <<>>)
  \o <<QueryText("q13", selected_city)>>

\* show_receivers_page
ReceiversQueries(selected_city) ==
  <<QueryText("q1r", selected_city), QueryText("q4", selected_city),
    QueryText("q11", selected_city)>>

Pages == {"Dashboard", "Providers", "Receivers"}

PageQueries(page, selected_city) ==
  CASE page = "Dashboard" -> DashboardQueries(selected_city)
    [] page = "Providers" -> ProvidersQueries(selected_city)
    [] page = "Receivers" -> ReceiversQueries(selected_city)

\* The reports a page draws, in its order.
PageReports(page) ==
  CASE page = "Dashboard" -> <<"q10", "q6", "q12">>
    [] page = "Providers" -> <<"q1p", "q2", "q3", "q13">>
    [] page = "Receivers" -> <<"q1r", "q4", "q11">>

\* What a page draws for its calls r. With "All Cities" the providers page draws
\* a note in place of q3, without a query.
Drawn(page, selected_city, r) ==
  [w |-> r.w, calls |-> r.calls,
   shown |-> IF page = "Providers" /\ selected_city = AllCities
             THEN <<Shown(r.calls[1]), Shown(r.calls[2]),
                    [rep |-> "q3", what |-> "info"], Shown(r.calls[3])>>
             ELSE [i \in 1..Len(r.calls) |-> Shown(r.calls[i])]]

\* One of the three page functions: every query is run and drawn in turn.
show_page(w, page, selected_city) ==
  Drawn(page, selected_city, RunAll(w, PageQueries(page, selected_city)))

all_cities_query == QueryText("cities", AllCities)

\* The values of the city selector, line 252 (their order aside).
Options(df) == {AllCities} \cup {r.City : r \in Range(df.rows)}

\* main() after the page function returned p; c is the city-list call.
PageDone(c, p) ==
  [w |-> p.w, calls |-> c.calls \o p.calls, shown |-> p.shown, crashed |-> FALSE]

\* main() from line 252 on; c is the city-list call. all_cities_df['City'] raises
\* KeyError on a frame without that column, which is what run_query returns after
\* a failure: the script ends there (crashed).
AfterCities(c, page, selected_city) ==
  IF "City" \notin Range(c.calls[1].df.cols)
  THEN [w |-> c.w, calls |-> c.calls, shown |-> <<>>, crashed |-> TRUE]
  ELSE PageDone(c, show_page(c.w, page, selected_city))

\* main(): the city list is queried, the selector built, the page drawn.
main(w, page, selected_city) ==
  AfterCities(RunAll(w, <<all_cities_query>>), page, selected_city)

\* --------------------------------------------------------------------- data
\* Cities: two that differ in case only, and one with an apostrophe.
CityLower == <<"d">>
CityUpper == <<"D">>
CityQuote == <<"d", "'", "D">>

ProvidersA ==
  <<[Provider_ID |-> 1, Name |-> "Ann", Type |-> "Restaurant", City |-> CityLower,
     Contact |-> "111"],
    [Provider_ID |-> 2, Name |-> "Bob", Type |-> "Grocery", City |-> CityUpper,
     Contact |-> "222"]>>

ReceiversA ==
  <<[Receiver_ID |-> 1, Name |-> "Ria", City |-> CityLower],
    [Receiver_ID |-> 2, Name |-> "Sam", City |-> CityUpper]>>

FoodA ==
  <<[Food_ID |-> 1, Provider_ID |-> 1, Quantity |-> 5, Meal_Type |-> "Lunch",
     Location |-> CityLower, Expiry_Date |-> "2025-03-17"],
    [Food_ID |-> 2, Provider_ID |-> 2, Quantity |-> 3, Meal_Type |-> "Dinner",
     Location |-> CityUpper, Expiry_Date |-> "soon"]>>

ClaimsA ==
  <<[Claim_ID |-> 1, Food_ID |-> 1, Receiver_ID |-> 1, Status |-> "Completed",
     Timestamp |-> "2025-03-18 10:00"],
    [Claim_ID |-> 2, Food_ID |-> 2, Receiver_ID |-> 2, Status |-> "Pending",
     Timestamp |-> "later"]>>

\* A second version of the claims file: one more claim.
ClaimsB ==
  Append(ClaimsA, [Claim_ID |-> 3, Food_ID |-> 1, Receiver_ID |-> 2,
                   Status |-> "Cancelled", Timestamp |-> "2025-03-17"])

CsvA ==
  [f \in Files |->
     CASE f = "providers_data.csv" -> CsvOk(ProvidersA)
       [] f = "receivers_data.csv" -> CsvOk(ReceiversA)
       [] f = "food_listings_data.csv" -> CsvOk(FoodA)
       [] f = "claims_data.csv" -> CsvOk(ClaimsA)]

\* What an edit can make of a file: the first and the last file of required_csvs
\* can go missing, the second and the last can be broken, the last can get
\* new rows, and each can be put back.
CsvChoices(f) ==
  {CsvA[f]}
  \cup (IF f \in {"providers_data.csv", "claims_data.csv"} THEN {CsvAbsent} ELSE {})
  \cup (IF f \in {"receivers_data.csv", "claims_data.csv"} THEN {CsvMalformed} ELSE {})
  \cup (IF f = "claims_data.csv" THEN {CsvOk(ClaimsB)} ELSE {})

\* The texts run_query is called with directly: two reports, one of them also
\* with a city, and a text that is no SQL.
QueryChoices ==
  {QueryText("q10", AllCities), QueryText("q1p", AllCities),
   QueryText("q1p", CityLower), [rep |-> "no sql", clause |-> <<>>]}

\* -------------------------------------------------------------------- state
VARIABLES
  csv,          \* the four input files on disk
  db,           \* the store file DB_FILE
  openable,     \* whether sqlite3.connect(DB_FILE) succeeds (directory rights)
  setupCache,   \* st.cache_resource's entry for setup_database
  queryCache,   \* st.cache_data's entries for run_query
  openConns,    \* connections opened by the app and not closed
  setupRuns,    \* executions of setup_database's body
  last,         \* the last operation and what it did
  firstResult,  \* history: per query text, what its first run_query call returned
  firstSetup,   \* history: what setup_database's body returned when it first ran
  ing,          \* history: ingestion runs since the files last changed
  steps         \* operations so far

vars ==
  <<csv, db, openable, setupCache, queryCache, openConns, setupRuns, last,
    firstResult, firstSetup, ing, steps>>

World ==
  [csv |-> csv, db |-> db, openable |-> openable, setupCache |-> setupCache,
   queryCache |-> queryCache, openConns |-> openConns, setupRuns |-> setupRuns]

\* The process and the files after an operation of the app.
Becomes(w) ==
  /\ csv' = w.csv
  /\ db' = w.db
  /\ openable' = w.openable
  /\ setupCache' = w.setupCache
  /\ queryCache' = w.queryCache
  /\ openConns' = w.openConns
  /\ setupRuns' = w.setupRuns

NoOp ==
  [op |-> "none", calls |-> <<>>, shown |-> <<>>, crashed |-> FALSE,
   page |-> "", city |-> <<>>, out |-> "", file |-> "", opened |-> 0, closed |-> 0,
   missing |-> FALSE, unchanged |-> TRUE, hadTables |-> FALSE]

\* Each call marked with whether its text was the text of an earlier call.
Marked(calls, seen) ==
  [i \in 1..Len(calls) |->
     [q |-> calls[i].q, df |-> calls[i].df, msgs |-> calls[i].msgs,
      ev |-> calls[i].ev, raised |-> calls[i].raised, setup |-> calls[i].setup,
      absent |-> calls[i].absent,
      known |-> calls[i].q \in seen \cup {calls[j].q : j \in 1..(i - 1)}]]

\* firstResult after the calls: the first call of each new text is kept, with
\* whether it executed the query.
RECURSIVE Remember(_, _)
Remember(first, calls) ==
  IF calls = <<>> THEN first
  ELSE LET c == calls[1]
       IN Remember(IF c.q \in DOMAIN first THEN first
                   ELSE [x \in DOMAIN first \cup {c.q} |->
                           IF x = c.q
                           THEN [df |-> c.df, ok |-> "query" \in Range(c.ev)]
                           ELSE first[x]],
                   Tail(calls))

\* No ingestion run since the files last changed.
NoRuns == [n |-> 0, by |-> "", tables |-> NoStore.tables]

\* ing after a run of the ingestion `by` that left `tables`: the runs in a row of
\* one ingestion are counted (to 2), and the tables after the first are kept.
Counted(by, tables) ==
  IF ing.n = 0 \/ ing.by # by THEN [n |-> 1, by |-> by, tables |-> tables]
  ELSE [n |-> 2, by |-> by, tables |-> ing.tables]

BodyRan(calls) == \E i \in 1..Len(calls) : "setup_body" \in Range(calls[i].ev)

\* The histories after an operation of the app that made these calls.
Histories(calls, ingested, tables) ==
  /\ firstResult' = Remember(firstResult, calls)
  /\ firstSetup' =
       IF firstSetup = "" /\ BodyRan(calls)
       THEN calls[CHOOSE i \in 1..Len(calls) : "setup_body" \in Range(calls[i].ev)].setup
       ELSE firstSetup
  /\ ing' = IF ~ingested THEN ing ELSE Counted("setup_database", tables)

\* Some required file is absent.
AnyMissing(c) == \E f \in Files : c[f].kind = "absent"

HasTables(d) == \E t \in Tables : d.tables[t].exists

\* One run_query call from a script.
RunQuery(q) ==
  /\ steps < MaxSteps
  /\ \E r \in {RunAll(World, <<q>>)} :
        /\ Becomes(r.w)
        /\ last' = [NoOp EXCEPT !.op = "run_query",
                                !.calls = Marked(r.calls, DOMAIN firstResult),
                                !.missing = AnyMissing(csv),
                                !.unchanged = (r.w.db = db),
                                !.hadTables = HasTables(db)]
        /\ Histories(r.calls, BodyRan(r.calls), r.w.db.tables)
  /\ steps' = steps + 1

\* One run of the script: main() with the page and the city the user has chosen.
\* When main() ends at line 252 there is no selector and no page.
Render(page, selected_city) ==
  /\ steps < MaxSteps
  /\ \E m \in {main(World, page, selected_city)} :
        /\ IF m.crashed THEN page = "Dashboard" /\ selected_city = AllCities
           ELSE selected_city \in Options(m.calls[1].df)
        /\ Becomes(m.w)
        /\ last' = [NoOp EXCEPT !.op = "render",
                                !.calls = Marked(m.calls, DOMAIN firstResult),
                                !.shown = m.shown,
                                !.crashed = m.crashed,
                                !.page = page,
                                !.city = selected_city,
                                !.missing = AnyMissing(csv),
                                !.unchanged = (m.w.db = db),
                                !.hadTables = HasTables(db)]
        /\ Histories(m.calls, BodyRan(m.calls), m.w.db.tables)
  /\ steps' = steps + 1

\* python build_db.py, a process of its own.
BuildDb ==
  /\ steps < MaxSteps
  /\ \E b \in {build_db(csv, db, openable)} :
        /\ db' = b.db
        /\ last' = [NoOp EXCEPT !.op = "build_db",
                                !.out = b.out,
                                !.file = b.file,
                                !.opened = b.opened,
                                !.closed = b.closed,
                                !.missing = AnyMissing(csv),
                                !.unchanged = (b.db = db),
                                !.hadTables = HasTables(db)]
        /\ ing' = Counted("build_db", b.db.tables)
  /\ steps' = steps + 1
  /\ UNCHANGED <<csv, openable, setupCache, queryCache, openConns, setupRuns,
                 firstResult, firstSetup>>


\* The user edits, breaks, removes or restores an input file.
SetCsv(f, c) ==
  /\ steps < MaxSteps
  /\ c # csv[f]
  /\ csv' = [csv EXCEPT ![f] = c]
  /\ last' = [NoOp EXCEPT !.op = "env"]
  /\ ing' = NoRuns
  /\ steps' = steps + 1
  /\ UNCHANGED <<db, openable, setupCache, queryCache, openConns, setupRuns,
                 firstResult, firstSetup>>

\* The user removes the store file.
RemoveStore ==
  /\ steps < MaxSteps
  /\ db.file
  /\ db' = NoStore
  /\ last' = [NoOp EXCEPT !.op = "env"]
  /\ ing' = NoRuns
  /\ steps' = steps + 1
  /\ UNCHANGED <<csv, openable, setupCache, queryCache, openConns, setupRuns,
                 firstResult, firstSetup>>

\* The directory's rights change: sqlite3.connect starts or stops failing.
SetOpenable ==
  /\ steps < MaxSteps
  /\ openable' = ~openable
  /\ last' = [NoOp EXCEPT !.op = "env"]
  /\ ing' = NoRuns
  /\ steps' = steps + 1
  /\ UNCHANGED <<csv, db, setupCache, queryCache, openConns, setupRuns,
                 firstResult, firstSetup>>

\* A fresh process beside the four files, no store yet.
Init ==
  /\ csv = CsvA
  /\ db = NoStore
  /\ openable = TRUE
  /\ setupCache = NotCached
  /\ queryCache = <<>>
  /\ openConns = 0
  /\ setupRuns = 0
  /\ last = NoOp
  /\ firstResult = <<>>
  /\ firstSetup = ""
  /\ ing = NoRuns
  /\ steps = 0

Next ==
  \/ \E q \in QueryChoices : RunQuery(q)
  \/ BuildDb
  \/ \E f \in Files : \E c \in CsvChoices(f) : SetCsv(f, c)
  \/ RemoveStore
  \/ SetOpenable

Spec == Init /\ [][Next]_vars

\* ------------------------------------------- one script run over varied data
CityValues == {CityLower, CityUpper, CityQuote}

\* The four files with the given cities: c[1], c[2] the providers' (and the
\* receivers'), c[3], c[4] the listings' locations.
CsvWith(c) ==
  [f \in Files |->
     CASE f = "providers_data.csv" ->
            CsvOk([i \in 1..2 |-> [ProvidersA[i] EXCEPT !.City = c[i]]])
       [] f = "receivers_data.csv" ->
            CsvOk([i \in 1..2 |-> [ReceiversA[i] EXCEPT !.City = c[i]]])
       [] f = "food_listings_data.csv" ->
            CsvOk([i \in 1..2 |-> [FoodA[i] EXCEPT !.Location = c[i + 2]]])
       [] f = "claims_data.csv" -> CsvOk(ClaimsB)]

\* What a fresh process can find on disk: the store built by build_db.py, no
\* store, no store and no claims file, the store of a build that failed on a
\* broken claims file, or the empty store a failed setup_database leaves.
StartKinds == {"built", "no store", "no claims file", "partial", "empty"}

StartCsv(kind, c) ==
  CASE kind = "no claims file" -> [CsvWith(c) EXCEPT !["claims_data.csv"] = CsvAbsent]
    [] kind = "partial" -> [CsvWith(c) EXCEPT !["claims_data.csv"] = CsvMalformed]
    [] OTHER -> CsvWith(c)

StartStore(kind, c) ==
  CASE kind \in {"built", "partial"} -> build_db(StartCsv(kind, c), NoStore, TRUE).db
    [] kind = "empty" -> EmptyStore
    [] OTHER -> NoStore

FreshProcess ==
  /\ openable = TRUE
  /\ setupCache = NotCached
  /\ queryCache = <<>>
  /\ openConns = 0
  /\ setupRuns = 0
  /\ last = NoOp
  /\ firstResult = <<>>
  /\ firstSetup = ""
  /\ ing = NoRuns
  /\ steps = MaxSteps - 1

InitPages ==
  /\ \E kind \in StartKinds, c \in [1..4 -> CityValues] :
        /\ csv = StartCsv(kind, c)
        /\ db = StartStore(kind, c)
  /\ FreshProcess

NextPages == \E page \in Pages, c \in CityValues \cup {AllCities} : Render(page, c)

\* One run of the script on a fresh process, over every start and every choice
\* of page and city.
SpecPages == InitPages /\ [][NextPages]_vars

\* ------------------------------------- the status distribution over any claims
Statuses == {"Pending", "Completed", "Cancelled"}

\* A claims file with the given statuses.
ClaimsOf(st) ==
  [i \in 1..Len(st) |->
     [Claim_ID |-> i, Food_ID |-> 1, Receiver_ID |-> 1, Status |-> st[i],
      Timestamp |-> "2025-03-17"]]

status_query == QueryText("q10", AllCities)

InitStatus ==
  /\ \E n \in 0..MaxClaims : \E st \in [1..n -> Statuses] :
        /\ csv = [CsvA EXCEPT !["claims_data.csv"] = CsvOk(ClaimsOf(st))]
        /\ db = build_db(csv, NoStore, TRUE).db
  /\ FreshProcess

NextStatus == RunQuery(status_query)

\* The status-distribution query, run once over every claims table of up to
\* MaxClaims rows.
SpecStatus == InitStatus /\ [][NextStatus]_vars

\* ------------------------------------------------------------------- claims
\* The run_query calls of the last operation.
Calls == Range(last.calls)

\* The call read or tried the query on an open connection.
QueryTried(call) == "query" \in Range(call.ev) \/ "query_failed" \in Range(call.ev)

\* The call reached the store: existence check, connection or query.
TouchedStore(call) ==
  Range(call.ev) \cap {"exists", "setup_body", "setup_hit", "connect",
                       "connect_failed", "query", "query_failed", "close"} # {}

\* C1 (as amended): the first run_query call of a text runs the function's body,
\* which looks for the store and, whenever it gets a connection, executes the text
\* on it; every later call of the same text returns the table the first call
\* returned and does not touch the store, whatever became of the store since.
C1_CachedByText ==
  \A call \in Calls :
    /\ call.known => /\ call.df = firstResult[call.q].df
                     /\ ~TouchedStore(call)
    /\ ~call.known => /\ "exists" \in Range(call.ev)
                      /\ ("connect" \in Range(call.ev) => QueryTried(call))

\* C1's case: a text is called again after the store changed so that executing
\* it again would return another table.
C1_Witness ==
  /\ last.op = "run_query"
  /\ db.file
  /\ \E call \in Calls :
       /\ call.known
       /\ read_sql_query(call.q, db.tables).df # call.df

\* C1 as stated: every first call of a text executes it against the store (and
\* every later call returns the first call's table without touching the store).
C1_FirstCallExecutes ==
  \A call \in Calls :
    /\ call.known => /\ call.df = firstResult[call.q].df
                     /\ ~TouchedStore(call)
    /\ ~call.known => QueryTried(call)

QueryOk(call) ==
  IF call.known THEN firstResult[call.q].ok ELSE "query" \in Range(call.ev)

Kinds(msgs) == {msgs[i].kind : i \in 1..Len(msgs)}

\* C3: no run_query call raises; a call whose query was not executed with success
\* (the rebuild failed, the connection failed, the execution failed) draws an
\* error message, the one of its failure, and returns the empty frame; only a
\* call whose query was executed with success returns a frame that is not empty.
C3_NeverRaises ==
  \A call \in Calls :
    /\ ~call.raised
    /\ ~QueryOk(call) => /\ call.msgs # <<>>
                         /\ call.df = EmptyDataFrame
    /\ ~IsEmpty(call.df) => QueryOk(call)
    /\ call.setup = "None" => "csv_not_found" \in Kinds(call.msgs)
    /\ call.setup = "False" => "setup_error" \in Kinds(call.msgs)
    /\ "connect_failed" \in Range(call.ev) => "connect_error" \in Kinds(call.msgs)
    /\ "query_failed" \in Range(call.ev) => "query_error" \in Kinds(call.msgs)

\* C3's case: a report's query fails on a store that lacks its table.
C3_Witness ==
  \E call \in Calls :
    /\ call.q.rep \in Reports
    /\ "query_failed" \in Range(call.ev)
    /\ call.df = EmptyDataFrame

\* An ingestion started in the last operation: the script ran, or the body of
\* setup_database did.
IngestionRan == last.op = "build_db" \/ BodyRan(last.calls)

\* C4: when a required file is absent as an ingestion starts, the ingestion names
\* an absent file and ends without opening the store, which is left as it was
\* (not created, no table written), for the script and for setup_database.
C4_MissingFileHalts ==
  (IngestionRan /\ last.missing) =>
    /\ last.unchanged
    /\ last.op = "build_db" =>
         /\ last.out = "missing"
         /\ last.opened = 0
         /\ csv[last.file].kind = "absent"
    /\ \A call \in Calls :
         "setup_body" \in Range(call.ev) =>
           /\ call.setup = "None"
           /\ "connect" \notin Range(call.ev)
           /\ \E i \in 1..Len(call.msgs) :
                /\ call.msgs[i].kind = "csv_not_found"
                /\ csv[call.msgs[i].file].kind = "absent"

\* C4's case: setup_database's body found a file missing and the store, absent
\* before, is still absent.
C4_Witness ==
  /\ last.op = "run_query"
  /\ BodyRan(last.calls)
  /\ last.missing
  /\ ~db.file

\* The key of a row of each file's table.
RowId(f, r) ==
  CASE f = "providers_data.csv" -> r.Provider_ID
    [] f = "receivers_data.csv" -> r.Receiver_ID
    [] f = "food_listings_data.csv" -> r.Food_ID
    [] f = "claims_data.csv" -> r.Claim_ID

Ids(f, rows) == [i \in 1..Len(rows) |-> RowId(f, rows[i])]

\* C5: when the four files are present and well-formed (and the store can be
\* opened), an ingestion run completes and leaves each of the four tables in the
\* store, holding the rows of its file and no others, one table row per file row,
\* whatever the store held before.
C5_FourTablesReplaced ==
  (IngestionRan /\ AllWellFormed(csv) /\ openable) =>
    /\ last.op = "build_db" => last.out = "ok"
    /\ \A f \in Files :
         /\ db.tables[TableOf(f)].exists
         /\ Len(db.tables[TableOf(f)].rows) = Len(csv[f].rows)
         /\ Ids(f, db.tables[TableOf(f)].rows) = Ids(f, csv[f].rows)

\* C5's case: the script completed on a store that held tables, and changed it.
C5_Witness ==
  /\ last.op = "build_db"
  /\ last.out = "ok"
  /\ last.hadTables
  /\ ~last.unchanged

FilteredReports == {"q12", "q1p", "q2", "q3", "q13", "q1r", "q4", "q11"}

CityTable(rep) ==
  CASE rep \in {"q1p", "q2", "q3", "q13"} -> "Providers"
    [] rep \in {"q1r", "q4", "q11"} -> "Receivers"
    [] rep = "q12" -> "Food_Listings"

CityColumn(rep) == IF rep = "q12" THEN "Location" ELSE "City"

\* The tables with the report's city table cut down to the rows of the city.
Restricted(T, rep, city) ==
  [T EXCEPT ![CityTable(rep)].rows =
     SelectSeq(@, LAMBDA r : r[CityColumn(rep)] = city)]

\* C7, for the reports that take the filter: the result of each query of a page
\* is the unfiltered aggregate, over all rows with "All Cities" and over the rows
\* whose city column equals the selected city otherwise.
C7_CityFilter ==
  (last.op = "render" /\ ~last.crashed) =>
    \A call \in Calls :
      (/\ call.q.rep \in FilteredReports
       /\ \A t \in TablesOf(call.q.rep) : db.tables[t].exists)
      => call.df.rows =
           ReportRows(call.q.rep,
                      IF last.city = AllCities THEN db.tables
                      ELSE Restricted(db.tables, call.q.rep, last.city),
                      NoFilter)

\* C8: over a Claims table that is not empty, the status query returns one row per
\* distinct Status, its Percentage the nearest hundredth to 100 * n / N (n rows of
\* the status among N); the percentages sum to 100 within half a hundredth per
\* status; 3 Completed and 1 Pending give 75.00 and 25.00.
C8_StatusPercentages ==
  (last.op = "run_query" /\ db.tables["Claims"].rows # <<>>) =>
    LET C == db.tables["Claims"].rows
        N == Len(C)
        rows == last.calls[1].df.rows
        Count(s) == Cardinality({i \in 1..N : C[i].Status = s})
        Abs(x) == IF x < 0 THEN -x ELSE x
    IN /\ {rows[i].Status : i \in 1..Len(rows)} = {C[i].Status : i \in 1..N}
       /\ Len(rows) = Cardinality({C[i].Status : i \in 1..N})
       /\ \A i \in 1..Len(rows) :
            2 * Abs(rows[i].Percentage * N - 10000 * Count(rows[i].Status)) <= N
       /\ 2 * Abs(SumSeq([i \in 1..Len(rows) |-> rows[i].Percentage]) - 10000)
            <= Len(rows)
       /\ (N = 4 /\ Count("Completed") = 3 /\ Count("Pending") = 1) =>
            Range(rows) = {[Status |-> "Completed", Percentage |-> 7500],
                           [Status |-> "Pending", Percentage |-> 2500]}

\* C8's case: the query ran over three statuses that do not divide 100 evenly.
C8_Witness ==
  /\ last.op = "run_query"
  /\ Len(db.tables["Claims"].rows) = 3
  /\ Len(last.calls[1].df.rows) = 3
  /\ SumSeq([i \in 1..3 |-> last.calls[1].df.rows[i].Percentage]) = 9999

\* C9: a script run never ends in an exception: every report of the page is
\* drawn, as a frame or, when its query returned the empty frame, as a note.
C9_RenderNeverCrashes ==
  last.op = "render" =>
    /\ ~last.crashed
    /\ [i \in 1..Len(last.shown) |-> last.shown[i].rep] = PageReports(last.page)

\* C10: no connection is left open by a run_query call.
C10_NoOpenConnection == last.op = "run_query" => openConns = 0

====
